---------------------------- MODULE Spec2Model ----------------------------
(***************************************************************************)
(* Model of src/main.go: the goroutine concurrency-vs-parallelism          *)
(* benchmark.  The main goroutine runs warmUp and the four scenarios in    *)
(* sequence; every run function sets GOMAXPROCS, launches its tasks under  *)
(* a sync.WaitGroup, waits, and reads the elapsed time.                    *)
(*                                                                         *)
(* Scheduling: a launched goroutine is "ready"; it needs one of the        *)
(* gomaxprocs workers to be "running"; a goroutine in time.Sleep is        *)
(* "sleeping" and holds no worker.  The main goroutine is not counted      *)
(* against the ceiling (it is blocked in wg.Wait for most of a run), which *)
(* only adds interleavings.                                                *)
(*                                                                         *)
(* Time: the monotonic clock `now` advances by a nondeterministic amount   *)
(* when time.Since reads it (between two reads its value is unobservable). *)
(* Durations are non-negative and far below 2^63 ns, so int64 overflow of  *)
(* the sums is out of reach and the integers are unbounded here.           *)
(***************************************************************************)
EXTENDS Integers, Sequences, FiniteSets, TLC

\* ------------------------------------------------------------ bounds
\* runtime.NumCPU() and the GOMAXPROCS in effect at start are in 1..MaxCPU
MaxCPU == 2
\* the monotonic clock advances by at most MaxClock ticks in one execution
MaxClock == 1
\* rounds of an I/O task (20 in the source, scaled down)
IORounds == 1
\* SpecStats: sample sets of at most MaxLen durations in 0..MaxSample
MaxLen == 3
MaxSample == 3
\* SpecRuns: runtime.NumCPU() and the starting GOMAXPROCS are in 1..MaxCores
MaxCores == 4
\* SpecPrimes: two interleaved prime counts for every limit in 0..MaxLimit
\* (the limit of the source, PrimeLimit, is followed for one goroutine)
MaxLimit == 30

\* ------------------------------------------------- program constants
Iterations == 5
TotalWork == 10000000
\* the list in descending order
goroutineCountsDescending == <<16, 8, 4, 2, 1>>
goroutineCounts == <<1, 2, 4, 8, 16>>
SkipFactor == 4
\* loop bounds of the warm-up goroutine, of cpuIntensiveTaskImproved (limit)
\* and of the summation of ioIntensiveTaskImproved
WarmWork == 1000000
PrimeLimit == 100000
IoWork == 50000

VARIABLES
  numCPU,           \* runtime.NumCPU()
  gomaxprocs,       \* the process-wide worker ceiling, runtime.GOMAXPROCS
  now,              \* the monotonic clock
  fn,               \* the function of main.go the main goroutine is in
  pc,               \* its position there (or in the run function it called)
  role,             \* the measurement under way: "concurrent" | "parallel" | "row"
  iter,             \* loop index i of the scenario (index into goroutineCounts)
  runId,            \* ordinal of the WaitGroup in use (one per run)
  start,            \* local start of the run function
  elapsed,          \* value returned by time.Since(start)
  deferred,         \* pending deferred restores (saved oldMaxProcs values)
  wg,               \* counter of the current sync.WaitGroup
  tasks,            \* the goroutines launched and not yet collected
  concurrentTimes,  \* sample slices of the CPU / I/O scenario
  parallelTimes,
  concurrentTime,   \* locals of testMixedWorkload
  parallelTime,
  baseTime,         \* local of testScalability
  calls,            \* history: the run-function calls of the current scenario
  report,           \* the last results block / row written to stdout
  proc,             \* the process: "running" | "panicking" | "exited"
  failedIn,         \* the function main was in when a goroutine panicked
  durations,        \* SpecStats: argument of average / stdDev
  result            \* SpecStats: the value returned

vars == <<numCPU, gomaxprocs, now, fn, pc, role, iter, runId, start, elapsed,
          deferred, wg, tasks, concurrentTimes, parallelTimes, concurrentTime,
          parallelTime, baseTime, calls, report, proc, failedIn,
          durations, result>>

mainVars == <<fn, pc, role, iter, runId, start, elapsed, deferred,
              concurrentTimes, parallelTimes, concurrentTime, parallelTime,
              baseTime, calls, report>>

statVars == <<durations, result>>

procVars == <<proc, failedIn>>

\* ------------------------------------------------------- statistics

\* the loop  for _, d := range durations { total += d }
RECURSIVE TotalFrom(_, _, _)
TotalFrom(d, k, total) ==
  IF k > Len(d) THEN total ELSE TotalFrom(d, k + 1, total + d[k])

\* a loop that starts at the second element
averageSkipFirst(d) ==
  IF Len(d) = 0 THEN 0 ELSE TotalFrom(d, 2, 0) \div Len(d)

average(d) ==
  IF Len(d) = 0 THEN 0 ELSE TotalFrom(d, 1, 0) \div Len(d)

\* the loop  diff := float64(d - avg); variance += diff * diff
RECURSIVE SquaresFrom(_, _, _, _)
SquaresFrom(d, avg, k, variance) ==
  IF k > Len(d) THEN variance
  ELSE SquaresFrom(d, avg, k + 1, variance + (d[k] - avg) * (d[k] - avg))

\* variance /= float64(len(durations) - 1), as time.Duration truncates it
SampleVariance(d) == SquaresFrom(d, average(d), 1, 0) \div (Len(d) - 1)

\* the guard written  len(durations) < 1 : one sample divides 0.0 by 0.0
\* and the conversion of NaN to time.Duration is not 0 (amd64: the minimum)
stdDevWeakGuard(d) ==
  IF Len(d) < 1 THEN 0 ELSE IF Len(d) = 1 THEN 0 - 1 ELSE SampleVariance(d)

stdDev(d) ==
  IF Len(d) <= 1 THEN 0 ELSE SampleVariance(d)

\* float64(a) / float64(b) for durations a, b >= 0: IEEE-754 division never
\* panics; x/0 is +Inf and 0/0 is NaN
FloatDiv(a, b) ==
  IF b = 0
  THEN IF a = 0 THEN [kind |-> "NaN", num |-> 0, den |-> 0]
                ELSE [kind |-> "+Inf", num |-> a, den |-> 0]
  ELSE [kind |-> "num", num |-> a, den |-> b]

\* (speedup / float64(runtime.NumCPU())) * 100
Efficiency(speedup, n) ==
  IF speedup.kind = "num"
  THEN [kind |-> "num", num |-> speedup.num * 100, den |-> speedup.den * n]
  ELSE speedup

\* ---------------------------------------------------------- helpers

Scenarios == <<"warmUp", "testCPUWorkImproved", "testIOWorkImproved",
               "testMixedWorkload", "testScalability", "exit">>

ScenarioIndex(f) == CHOOSE k \in 1..Len(Scenarios) : Scenarios[k] = f

IsIterated(f) == f \in {"testCPUWorkImproved", "testIOWorkImproved"}

\* the call of the run function with nothing before it
BeforeCallNoSettle(f) == "set"

\* where a measurement begins in scenario f: testCPUWorkImproved and
\* testIOWorkImproved put runtime.GC() and a 10ms sleep before each call of
\* their run function, testMixedWorkload calls it directly
BeforeCall(f) == IF IsIterated(f) THEN "gc" ELSE "set"

\* levels counted from zero
LevelZeroBased(r) == IF r = "concurrent" THEN 0 ELSE numCPU - 1

\* the argument maxProcs of the run function called for `role`
Level(r) == IF r = "concurrent" THEN 1 ELSE numCPU

\* numTasks of the run function (warmUp's loop bound)
NumTasks ==
  CASE fn = "testIOWorkImproved" -> numCPU * 2
    [] fn = "testScalability"    -> goroutineCounts[iter]
    [] OTHER                     -> numCPU

\* the parity test of runMixedTasks taken on the one-based index
TaskKindOneBased(i) ==
  IF fn = "testMixedWorkload"
  THEN IF (i + 1) % 2 = 0 THEN "cpu" ELSE "io"
  ELSE IF fn = "warmUp" THEN "warm"
  ELSE IF fn = "testCPUWorkImproved" THEN "cpu"
  ELSE IF fn = "testIOWorkImproved" THEN "io" ELSE "scal"

\* the task launched at index i by the function the main goroutine is in
TaskKind(i) ==
  CASE fn = "warmUp"              -> "warm"
    [] fn = "testCPUWorkImproved" -> "cpu"
    [] fn = "testIOWorkImproved"  -> "io"
    [] fn = "testMixedWorkload"   -> IF i % 2 = 0 THEN "cpu" ELSE "io"
    [] OTHER                      -> "scal"

\* the division taken over one goroutine more than were launched
WorkPerGoroutineOffByOne(numGoroutines) == TotalWork \div (numGoroutines + 1)

\* workPerGoroutine := 10_000_000 / numGoroutines
WorkPerGoroutine(numGoroutines) == TotalWork \div numGoroutines

\* the loop bound the goroutine launched at index i works to
TaskWork(i) ==
  CASE TaskKind(i) = "warm" -> WarmWork
    [] TaskKind(i) = "cpu"  -> PrimeLimit
    [] TaskKind(i) = "io"   -> IoWork
    [] OTHER                -> WorkPerGoroutine(goroutineCounts[iter])

NewTask(i) ==
  [run |-> runId, id |-> i, kind |-> TaskKind(i), work |-> TaskWork(i),
   st |-> "ready", round |-> 0, signals |-> 0]

TaskIdx == 1..Len(tasks)

\* goroutines of the WaitGroup in use
Mine == {k \in TaskIdx : tasks[k].run = runId}

\* a sleeping goroutine counted as holding its worker
RunningOrSleeping == {k \in TaskIdx : tasks[k].st \in {"running", "sleeping"}}

\* the goroutines on a worker
Running == {k \in TaskIdx : tasks[k].st = "running"}

Finished(t) == t.st \in {"done", "panicked"}

\* a goroutine that returns without wg.Done()
WgDoneForgotten(c) == c

\* wg.Done() double-counted
WgDoneTwice(c) == c - 2

\* wg.Done()
WgDone(c) == c - 1

\* a wait that gives up on its own
WaitTimedOut == TRUE

\* wg.Wait() released one signal early
WaitReleasedEarly == wg <= 1

\* wg.Wait() returns when the counter is zero
WaitReleased == wg = 0

\* a measurement of 0 is not recorded
AppendSampleNonZero(samples, d) == IF d = 0 THEN samples ELSE Append(samples, d)

\* concurrentTimes = append(concurrentTimes, concurrentTime)
AppendSample(samples, d) == Append(samples, d)

\* finished goroutines are gone once the run function has returned
Collect(ts) == SelectSeq(ts, LAMBDA t : ~Finished(t))

LogCall(r, n) ==
  Append(calls, [role |-> r, arg |-> n, entry |-> gomaxprocs,
                 returned |-> FALSE, dur |-> 0])

LogReturn ==
  [calls EXCEPT ![Len(calls)].returned = TRUE, ![Len(calls)].dur = elapsed]


\* a call that only queries the setting
SetMaxProcsQueryOnly(n) == gomaxprocs

\* runtime.GOMAXPROCS(n): n < 1 leaves the setting unchanged
SetMaxProcs(n) == IF n < 1 THEN gomaxprocs ELSE n

\* the run functions that register  defer runtime.GOMAXPROCS(oldMaxProcs)
HasDefer(f) == f # "testScalability"

\* ------------------------------------------------------------- Init

\* every variable but the inputs, as the process starts
Fresh ==
  /\ now = 0
  /\ role = "none"
  /\ iter = 0
  /\ runId = 0
  /\ start = 0
  /\ elapsed = 0
  /\ deferred = <<>>
  /\ wg = 0
  /\ tasks = <<>>
  /\ concurrentTimes = <<>>
  /\ parallelTimes = <<>>
  /\ concurrentTime = 0
  /\ parallelTime = 0
  /\ baseTime = 0
  /\ calls = <<>>
  /\ report = [scenario |-> "none"]
  /\ proc = "running"
  /\ failedIn = "none"
  /\ result = [op |-> "none", val |-> 0]

\* main is about to call warmUp; NumCPU and the GOMAXPROCS the runtime
\* started with (its default, or the GOMAXPROCS environment variable)
Init ==
  /\ numCPU \in 1..MaxCPU
  /\ gomaxprocs \in 1..MaxCPU
  /\ fn = "warmUp"
  /\ pc = "launch"
  /\ durations = <<>>
  /\ Fresh

\* ----------------------------------------------- the main goroutine

\* one iteration of a launch loop:  wg.Add(1); go task(i, &wg)
LaunchStep ==
  /\ pc = "launch"
  /\ wg' = wg + 1
  /\ tasks' = Append(tasks, NewTask(Cardinality(Mine)))
  /\ pc' = IF Cardinality(Mine) + 1 < NumTasks THEN "launch" ELSE "wait"

\* func testCPUWorkImproved / testIOWorkImproved / testMixedWorkload /
\* testScalability is entered: its locals are fresh
EnterScenario(f) ==
  /\ fn' = f
  /\ pc' = CASE IsIterated(f)            -> BeforeCall(f)
             [] f = "testMixedWorkload"  -> BeforeCall(f)
             [] f = "testScalability"    -> "loop"
             [] OTHER                    -> "done"
  /\ role' = IF f = "testScalability" THEN "row"
             ELSE IF f = "exit" THEN "none" ELSE "concurrent"
  /\ iter' = IF f = "testScalability" THEN 1 ELSE 0
  /\ concurrentTimes' = <<>>
  /\ parallelTimes' = <<>>
  /\ concurrentTime' = 0
  /\ parallelTime' = 0
  /\ baseTime' = 0
  /\ calls' = <<>>

\* warmUp: the launch loop
WarmLaunch ==
  /\ fn = "warmUp"
  /\ LaunchStep
  /\ UNCHANGED <<numCPU, gomaxprocs, now, fn, role, iter, runId, start, elapsed,
                 deferred, concurrentTimes, parallelTimes, concurrentTime,
                 parallelTime, baseTime, calls, report, procVars, statVars>>

\* warmUp: wg.Wait(); time.Sleep(100ms); return; main calls testCPUWorkImproved
WarmWait ==
  /\ fn = "warmUp"
  /\ pc = "wait"
  /\ WaitReleased
  /\ tasks' = Collect(tasks)
  /\ EnterScenario("testCPUWorkImproved")
  /\ UNCHANGED <<numCPU, gomaxprocs, now, runId, start, elapsed, deferred, wg,
                 report, procVars, statVars>>

\* runtime.GC(); time.Sleep(10 * time.Millisecond); then the run function is called
GCSettle ==
  /\ IsIterated(fn)
  /\ pc = "gc"
  /\ pc' = "set"
  /\ UNCHANGED <<numCPU, gomaxprocs, now, fn, role, iter, runId, start, elapsed,
                 deferred, wg, tasks, concurrentTimes, parallelTimes,
                 concurrentTime, parallelTime, baseTime, calls, report, procVars,
                 statVars>>

\* oldMaxProcs := runtime.GOMAXPROCS(maxProcs); defer runtime.GOMAXPROCS(oldMaxProcs)
\* (runScalabilityTest: runtime.GOMAXPROCS(runtime.NumCPU()), nothing deferred)
RunSet ==
  /\ fn \in {"testCPUWorkImproved", "testIOWorkImproved", "testMixedWorkload",
             "testScalability"}
  /\ pc = "set"
  /\ gomaxprocs' = SetMaxProcs(Level(role))
  /\ deferred' = IF HasDefer(fn) THEN Append(deferred, gomaxprocs) ELSE deferred
  /\ calls' = LogCall(role, IF fn = "testScalability" THEN goroutineCounts[iter]
                            ELSE Level(role))
  /\ pc' = "now"
  /\ UNCHANGED <<numCPU, now, fn, role, iter, runId, start, elapsed, wg, tasks,
                 concurrentTimes, parallelTimes, concurrentTime, parallelTime,
                 baseTime, report, procVars, statVars>>

\* var wg sync.WaitGroup; start := time.Now()
RunNow ==
  /\ pc = "now"
  /\ wg' = 0
  /\ runId' = runId + 1
  /\ start' = now
  /\ pc' = "launch"
  /\ UNCHANGED <<numCPU, gomaxprocs, now, fn, role, iter, elapsed, deferred, tasks,
                 concurrentTimes, parallelTimes, concurrentTime, parallelTime,
                 baseTime, calls, report, procVars, statVars>>

\* the launch loop of a run function
RunLaunch ==
  /\ fn # "warmUp"
  /\ LaunchStep
  /\ UNCHANGED <<numCPU, gomaxprocs, now, fn, role, iter, runId, start, elapsed,
                 deferred, concurrentTimes, parallelTimes, concurrentTime,
                 parallelTime, baseTime, calls, report, procVars, statVars>>

\* wg.Wait()
RunWait ==
  /\ fn # "warmUp"
  /\ pc = "wait"
  /\ WaitReleased
  /\ pc' = "since"
  /\ UNCHANGED <<numCPU, gomaxprocs, now, fn, role, iter, runId, start, elapsed,
                 deferred, wg, tasks, concurrentTimes, parallelTimes,
                 concurrentTime, parallelTime, baseTime, calls, report, procVars,
                 statVars>>

\* time.Since(start): the clock is read
RunSince ==
  /\ pc = "since"
  /\ \E d \in 0..(MaxClock - now) :
       /\ now' = now + d
       /\ elapsed' = now' - start
  /\ pc' = "ret"
  /\ UNCHANGED <<numCPU, gomaxprocs, fn, role, iter, runId, start, deferred, wg,
                 tasks, concurrentTimes, parallelTimes, concurrentTime,
                 parallelTime, baseTime, calls, report, procVars, statVars>>

\* the deferred runtime.GOMAXPROCS(oldMaxProcs) runs as the run function returns
Restore ==
  IF HasDefer(fn)
  THEN /\ gomaxprocs' = SetMaxProcs(deferred[Len(deferred)])
       /\ deferred' = SubSeq(deferred, 1, Len(deferred) - 1)
  ELSE UNCHANGED <<gomaxprocs, deferred>>

\* the caller's statements after the call, up to its next call
\* testCPUWorkImproved / testIOWorkImproved: append, next measurement
IteratedAfterRun ==
  /\ IsIterated(fn)
  /\ IF role = "concurrent"
     THEN /\ concurrentTimes' = AppendSample(concurrentTimes, elapsed)
          /\ role' = "parallel"
          /\ pc' = BeforeCall(fn)
          /\ UNCHANGED <<parallelTimes, iter>>
     ELSE /\ parallelTimes' = AppendSample(parallelTimes, elapsed)
          /\ role' = "concurrent"
          /\ iter' = iter + 1
          /\ pc' = IF iter + 1 < Iterations THEN BeforeCall(fn) ELSE "aggregate"
          /\ UNCHANGED concurrentTimes
  /\ UNCHANGED <<concurrentTime, parallelTime, baseTime, report>>

\* testMixedWorkload: concurrentTime := ..., parallelTime := ...
MixedAfterRun ==
  /\ fn = "testMixedWorkload"
  /\ IF role = "concurrent"
     THEN /\ concurrentTime' = elapsed
          /\ role' = "parallel"
          /\ pc' = BeforeCall(fn)
          /\ UNCHANGED parallelTime
     ELSE /\ parallelTime' = elapsed
          /\ pc' = "aggregate"
          /\ UNCHANGED <<concurrentTime, role>>
  /\ UNCHANGED <<concurrentTimes, parallelTimes, iter, baseTime, report>>

\* testScalability: baseTime, speedup and the row
ScalAfterRun ==
  /\ fn = "testScalability"
  /\ baseTime' = IF baseTime = 0 THEN elapsed ELSE baseTime
  /\ report' = [scenario |-> fn, count |-> goroutineCounts[iter],
                duration |-> elapsed, speedup |-> FloatDiv(baseTime', elapsed)]
  /\ iter' = iter + 1
  /\ pc' = "loop"
  /\ UNCHANGED <<concurrentTimes, parallelTimes, concurrentTime, parallelTime, role>>

\* return time.Since(start), back in the caller
RunReturn ==
  /\ pc = "ret"
  /\ Restore
  /\ tasks' = Collect(tasks)
  /\ calls' = LogReturn
  /\ elapsed' = 0
  /\ \/ IteratedAfterRun
     \/ MixedAfterRun
     \/ ScalAfterRun
  /\ UNCHANGED <<numCPU, now, fn, runId, start, wg, procVars, statVars>>

NextScenario(f) == Scenarios[ScenarioIndex(f) + 1]

\* testCPUWorkImproved / testIOWorkImproved: averages, speedup, results block
\* (the efficiency line is printed by testCPUWorkImproved only)
Aggregate ==
  /\ IsIterated(fn)
  /\ pc = "aggregate"
  /\ LET avgConcurrent == average(concurrentTimes)
         avgParallel == average(parallelTimes)
         speedup == FloatDiv(avgConcurrent, avgParallel)
         block == [scenario |-> fn, runs |-> Iterations,
                   concurrent |-> avgConcurrent, parallel |-> avgParallel,
                   sdConcurrent |-> stdDev(concurrentTimes),
                   sdParallel |-> stdDev(parallelTimes),
                   speedup |-> speedup]
     IN report' = IF fn = "testCPUWorkImproved"
                  THEN block @@ [efficiency |-> Efficiency(speedup, numCPU)]
                  ELSE block
  /\ EnterScenario(NextScenario(fn))
  /\ UNCHANGED <<numCPU, gomaxprocs, now, runId, start, elapsed, deferred, wg,
                 tasks, procVars, statVars>>

\* testMixedWorkload: speedup and the results block
MixedReport ==
  /\ fn = "testMixedWorkload"
  /\ pc = "aggregate"
  /\ report' = [scenario |-> fn, concurrent |-> concurrentTime,
                parallel |-> parallelTime,
                speedup |-> FloatDiv(concurrentTime, parallelTime)]
  /\ EnterScenario(NextScenario(fn))
  /\ UNCHANGED <<numCPU, gomaxprocs, now, runId, start, elapsed, deferred, wg,
                 tasks, procVars, statVars>>

\* testScalability:  for _, count := range goroutineCounts
ScalLoop ==
  /\ fn = "testScalability"
  /\ pc = "loop"
  /\ \/ /\ iter > Len(goroutineCounts)
        /\ EnterScenario("exit")
        /\ UNCHANGED report
     \/ /\ iter <= Len(goroutineCounts)
        /\ goroutineCounts[iter] > numCPU * SkipFactor
        /\ iter' = iter + 1
        /\ UNCHANGED <<fn, pc, role, concurrentTimes, parallelTimes,
                       concurrentTime, parallelTime, baseTime, calls, report>>
     \/ /\ iter <= Len(goroutineCounts)
        /\ goroutineCounts[iter] <= numCPU * SkipFactor
        /\ pc' = "set"
        /\ UNCHANGED <<fn, role, iter, concurrentTimes, parallelTimes,
                       concurrentTime, parallelTime, baseTime, calls, report>>
  /\ UNCHANGED <<numCPU, gomaxprocs, now, runId, start, elapsed, deferred, wg,
                 tasks, procVars, statVars>>

\* ---------------------------------------------------- the goroutines

\* the round counter kept in one variable shared by the goroutines
TaskStepSharedRound(k, st, round, signals) ==
  tasks' = [j \in DOMAIN tasks |->
              IF j = k
              THEN [tasks[j] EXCEPT !.st = st, !.round = round,
                                    !.signals = signals]
              ELSE [tasks[j] EXCEPT !.round = round]]

\* goroutine k moves: its state, its loop index, its wg.Done() count
TaskStep(k, st, round, signals) ==
  tasks' = [tasks EXCEPT ![k].st = st, ![k].round = round,
                         ![k].signals = signals]

\* the scheduler gives a free worker to a ready goroutine
Schedule(k) ==
  /\ tasks[k].st = "ready"
  /\ Cardinality(Running) < gomaxprocs
  /\ TaskStep(k, "running", tasks[k].round, tasks[k].signals)
  /\ UNCHANGED <<numCPU, gomaxprocs, now, mainVars, wg, procVars, statVars>>

\* the scheduler takes the worker back
Preempt(k) ==
  /\ tasks[k].st = "running"
  /\ TaskStep(k, "ready", tasks[k].round, tasks[k].signals)
  /\ UNCHANGED <<numCPU, gomaxprocs, now, mainVars, wg, procVars, statVars>>

\* ioIntensiveTaskImproved: time.Sleep(5 * time.Millisecond) parks the goroutine
IoSleep(k) ==
  /\ tasks[k].kind = "io"
  /\ tasks[k].st = "running"
  /\ tasks[k].round < IORounds
  /\ TaskStep(k, "sleeping", tasks[k].round, tasks[k].signals)
  /\ UNCHANGED <<numCPU, gomaxprocs, now, mainVars, wg, procVars, statVars>>

\* the timer fires; the summation and i++ follow when the goroutine runs again
IoWake(k) ==
  /\ tasks[k].st = "sleeping"
  /\ TaskStep(k, "ready", tasks[k].round + 1, tasks[k].signals)
  /\ UNCHANGED <<numCPU, gomaxprocs, now, mainVars, wg, procVars, statVars>>

\* the body runs to its end and the deferred wg.Done() signals the WaitGroup
\* the goroutine was launched with
TaskDone(k) ==
  /\ tasks[k].st = "running"
  /\ tasks[k].kind = "io" => tasks[k].round = IORounds
  /\ TaskStep(k, "done", tasks[k].round, tasks[k].signals + 1)
  /\ wg' = IF tasks[k].run = runId THEN WgDone(wg) ELSE wg
  /\ UNCHANGED <<numCPU, gomaxprocs, now, mainVars, procVars, statVars>>

\* ------------------------------------------------------------- Spec

Next ==
  \/ WarmLaunch
  \/ WarmWait
  \/ GCSettle
  \/ RunSet
  \/ RunNow
  \/ RunLaunch
  \/ RunWait
  \/ RunSince
  \/ RunReturn
  \/ Aggregate
  \/ MixedReport
  \/ ScalLoop
  \/ \E k \in TaskIdx : Schedule(k)
  \/ \E k \in TaskIdx : Preempt(k)
  \/ \E k \in TaskIdx : IoSleep(k)
  \/ \E k \in TaskIdx : IoWake(k)
  \/ \E k \in TaskIdx : TaskDone(k)

Spec == Init /\ [][Next]_vars


\* ---------------------------------------------------- fair scheduling

\* a step of the main goroutine
MainStep ==
  \/ WarmLaunch
  \/ WarmWait
  \/ GCSettle
  \/ RunSet
  \/ RunNow
  \/ RunLaunch
  \/ RunWait
  \/ RunSince
  \/ RunReturn
  \/ Aggregate
  \/ MixedReport
  \/ ScalLoop

\* What the Go scheduler and the finite task bodies give: the main goroutine
\* goes on whenever it is not blocked in wg.Wait(); a free worker is given to
\* some ready goroutine; a timer of time.Sleep fires; and goroutines that
\* are on a worker again and again get through their finite bodies, to the
\* next time.Sleep or to the end (a preemption loses no progress).
Fairness ==
  /\ WF_vars(MainStep)
  /\ WF_vars(\E k \in TaskIdx : Schedule(k))
  /\ WF_vars(\E k \in TaskIdx : IoWake(k))
  /\ SF_vars(\E k \in TaskIdx : IoSleep(k))
  /\ SF_vars(\E k \in TaskIdx : TaskDone(k))

SpecLive == Init /\ [][Next]_vars /\ Fairness

\* ------------------------------------------- an unrecovered panic

\* a goroutine panics: its deferred wg.Done() runs while it unwinds, and the
\* runtime is then bound to terminate the process (no recover in main.go)
TaskPanic(k) ==
  /\ proc = "running"
  /\ tasks[k].st = "running"
  /\ TaskStep(k, "panicked", tasks[k].round, tasks[k].signals + 1)
  /\ wg' = IF tasks[k].run = runId THEN WgDone(wg) ELSE wg
  /\ proc' = "panicking"
  /\ failedIn' = fn
  /\ UNCHANGED <<numCPU, gomaxprocs, now, mainVars, statVars>>

\* the runtime prints the panic and exits with status 2; the other
\* goroutines ran on until then.  The goroutines and their locals are gone;
\* fn keeps the function the main goroutine was in, report what was printed
ProcessExit ==
  /\ proc = "panicking"
  /\ proc' = "exited"
  /\ pc' = "killed"
  /\ tasks' = <<>>
  /\ wg' = 0
  /\ deferred' = <<>>
  /\ calls' = <<>>
  /\ role' = "none"
  /\ iter' = 0
  /\ start' = 0
  /\ elapsed' = 0
  /\ concurrentTimes' = <<>>
  /\ parallelTimes' = <<>>
  /\ concurrentTime' = 0
  /\ parallelTime' = 0
  /\ baseTime' = 0
  /\ UNCHANGED <<numCPU, gomaxprocs, now, fn, runId, report, failedIn, statVars>>

NextFault ==
  \/ proc # "exited" /\ Next
  \/ \E k \in TaskIdx : TaskPanic(k)
  \/ ProcessExit

SpecFault == Init /\ [][NextFault]_vars

\* ----------------------------------- average and stdDev on their own

Samples == UNION {[1..n -> 0..MaxSample] : n \in 0..MaxLen}

InitStats ==
  /\ numCPU = 1
  /\ gomaxprocs = 1
  /\ fn = "stats"
  /\ pc = "call"
  /\ durations \in Samples
  /\ Fresh

CallAverage ==
  /\ fn = "stats"
  /\ result' = [op |-> "average", val |-> average(durations)]
  /\ UNCHANGED <<numCPU, gomaxprocs, now, mainVars, wg, tasks, procVars, durations>>

CallStdDev ==
  /\ fn = "stats"
  /\ result' = [op |-> "stdDev", val |-> stdDev(durations)]
  /\ UNCHANGED <<numCPU, gomaxprocs, now, mainVars, wg, tasks, procVars, durations>>

NextStats ==
  \/ CallAverage
  \/ CallStdDev

SpecStats == InitStats /\ [][NextStats]_vars

\* ------------------------- the suite with each barrier taken in one step
\* The goroutines of a run touch nothing but their locals and the WaitGroup,
\* and wg.Wait() returns only when all of them are done: here the launch
\* loop and the wait are one step of the main goroutine, which leaves room
\* for machines of up to MaxCores cores (16 goroutines in a row of
\* testScalability, 4 tasks in runMixedTasks).

InitRuns ==
  /\ numCPU \in 1..MaxCores
  /\ gomaxprocs \in 1..MaxCores
  /\ fn = "warmUp"
  /\ pc = "launch"
  /\ durations = <<>>
  /\ Fresh

\* the goroutine launched at index i, after its deferred wg.Done()
DoneTask(i) ==
  [NewTask(i) EXCEPT !.st = "done", !.signals = 1,
                     !.round = IF TaskKind(i) = "io" THEN IORounds ELSE 0]

\* for i := 0; i < numTasks; i++ { wg.Add(1); go ... }  up to the release of
\* wg.Wait()
LaunchAll == [j \in 1..NumTasks |-> DoneTask(j - 1)]

\* warmUp from its launch loop to its return; main calls testCPUWorkImproved
WarmAll ==
  /\ fn = "warmUp"
  /\ pc = "launch"
  /\ tasks' = Collect(tasks \o LaunchAll)
  /\ EnterScenario("testCPUWorkImproved")
  /\ UNCHANGED <<numCPU, gomaxprocs, now, runId, start, elapsed, deferred, wg,
                 report, procVars, statVars>>

\* a run function from its launch loop to the return of wg.Wait()
RunAll ==
  /\ fn # "warmUp"
  /\ pc = "launch"
  /\ tasks' = tasks \o LaunchAll
  /\ pc' = "since"
  /\ UNCHANGED <<numCPU, gomaxprocs, now, fn, role, iter, runId, start, elapsed,
                 deferred, wg, concurrentTimes, parallelTimes, concurrentTime,
                 parallelTime, baseTime, calls, report, procVars, statVars>>

NextRuns ==
  \/ WarmAll
  \/ GCSettle
  \/ RunSet
  \/ RunNow
  \/ RunAll
  \/ RunSince
  \/ RunReturn
  \/ Aggregate
  \/ MixedReport
  \/ ScalLoop

SpecRuns == InitRuns /\ [][NextRuns]_vars


\* ------------------------------ cpuIntensiveTaskImproved on its own
\* The goroutines of one runCPUTasksImproved, after the launch loop, each
\* with its locals limit, n and count; one step is one iteration of the
\* outer loop.

\* the inner loop with the bound i*i < n
RECURSIVE IsPrimeFromStrict(_, _)
IsPrimeFromStrict(n, i) ==
  IF i * i < n
  THEN IF n % i = 0 THEN FALSE ELSE IsPrimeFromStrict(n, i + 1)
  ELSE TRUE

\* isPrime := true; for i := 2; i*i <= n; i++ { if n%i == 0 { isPrime =
\* false; break } }  from index i on: the value of isPrime after the loop
RECURSIVE IsPrimeFrom(_, _)
IsPrimeFrom(n, i) ==
  IF i * i <= n
  THEN IF n % i = 0 THEN FALSE ELSE IsPrimeFrom(n, i + 1)
  ELSE TRUE

\* the limits followed with g goroutines
Limits(g) == IF g = 1 THEN (0..MaxLimit) \cup {PrimeLimit} ELSE 0..MaxLimit

\* a goroutine at  count := 0; limit := ...; n := 2
PrimeTask(i, limit) ==
  [id |-> i, kind |-> "cpu", limit |-> limit, n |-> 2, count |-> 0,
   st |-> "running", signals |-> 0]

InitPrimes ==
  /\ numCPU \in 1..MaxCPU
  /\ gomaxprocs = numCPU
  /\ fn = "runCPUTasksImproved"
  /\ pc = "wait"
  /\ wg = numCPU
  /\ \E limit \in Limits(numCPU) :
       tasks = [j \in 1..numCPU |-> PrimeTask(j - 1, limit)]
  /\ now = 0
  /\ role = "parallel"
  /\ iter = 0
  /\ runId = 1
  /\ start = 0
  /\ elapsed = 0
  /\ deferred = <<numCPU>>
  /\ concurrentTimes = <<>>
  /\ parallelTimes = <<>>
  /\ concurrentTime = 0
  /\ parallelTime = 0
  /\ baseTime = 0
  /\ calls = <<>>
  /\ report = [scenario |-> "none"]
  /\ proc = "running"
  /\ failedIn = "none"
  /\ durations = <<>>
  /\ result = [op |-> "none", val |-> 0]

\* one iteration of  for n := 2; n < limit; n++ { ...; if isPrime { count++ } }
PrimeCandidate(k) ==
  /\ fn = "runCPUTasksImproved"
  /\ tasks[k].st = "running"
  /\ tasks[k].n < tasks[k].limit
  /\ tasks' = [tasks EXCEPT
                 ![k].count = IF IsPrimeFrom(tasks[k].n, 2) THEN @ + 1 ELSE @,
                 ![k].n = @ + 1]
  /\ UNCHANGED <<numCPU, gomaxprocs, now, mainVars, wg, procVars, statVars>>

\* the loop is left;  _ = count;  the deferred wg.Done()
PrimeDone(k) ==
  /\ fn = "runCPUTasksImproved"
  /\ tasks[k].st = "running"
  /\ tasks[k].n >= tasks[k].limit
  /\ tasks' = [tasks EXCEPT ![k].st = "done", ![k].signals = @ + 1]
  /\ wg' = WgDone(wg)
  /\ UNCHANGED <<numCPU, gomaxprocs, now, mainVars, procVars, statVars>>

NextPrimes ==
  \/ \E k \in TaskIdx : PrimeCandidate(k)
  \/ \E k \in TaskIdx : PrimeDone(k)

SpecPrimes == InitPrimes /\ [][NextPrimes]_vars

\* =================================================================
\* Properties
\* =================================================================

Last(s) == s[Len(s)]

\* the run function has passed wg.Wait()
PastBarrier == pc \in {"since", "ret"}

\* C1: the barrier counter never goes below zero, no task signals twice, and
\* once a run function is past wg.Wait() all NumTasks launched tasks have
\* completed, each with exactly one completion signal (ids 0..NumTasks-1,
\* none missing, none duplicated).
C1_BarrierComplete ==
  /\ wg >= 0
  /\ \A k \in TaskIdx : tasks[k].signals <= 1
  /\ PastBarrier =>
       /\ wg = 0
       /\ Cardinality(Mine) = NumTasks
       /\ {tasks[k].id : k \in Mine} = 0..(NumTasks - 1)
       /\ \A k \in Mine : tasks[k].st = "done" /\ tasks[k].signals = 1

C1_Witness ==
  /\ fn = "testIOWorkImproved"
  /\ pc = "ret"
  /\ role = "concurrent"
  /\ Cardinality(Mine) = 4
  /\ \A k \in Mine : tasks[k].st = "done" /\ tasks[k].round = IORounds

\* C2: when a run function has returned, the ceiling is the one it was
\* entered with.
C2_CeilingRestoredOnExit ==
  (calls # <<>> /\ Last(calls).returned) => gomaxprocs = Last(calls).entry

NoLiveTask == \A k \in TaskIdx : Finished(tasks[k])

\* C3 (state part): at most one deferred restore is pending; outside a run
\* function no goroutine is alive, and inside one only its own are: none of
\* an earlier measurement is alive when the ceiling is set or a task is
\* launched.
C3_OneScopeNoOverlap ==
  /\ Len(deferred) <= 1
  /\ pc \in {"gc", "set", "now", "aggregate", "loop", "done"} => NoLiveTask
  /\ pc \in {"launch", "wait", "since", "ret"} =>
       \A k \in TaskIdx \ Mine : Finished(tasks[k])

\* C3: the state part always holds, and the main goroutine moves from a
\* function only to the next one of warmUp, CPU, I/O, Mixed, Scalability.
C3_Sequential ==
  /\ []C3_OneScopeNoOverlap
  /\ [][fn' # fn => ScenarioIndex(fn') = ScenarioIndex(fn) + 1]_vars

C3_Witness ==
  /\ fn = "testMixedWorkload"
  /\ role = "parallel"
  /\ pc = "wait"
  /\ Len(deferred) = 1
  /\ Cardinality(Mine) = 2
  /\ \E k \in Mine : tasks[k].st = "running"

\* the sum of d[i]^e over the indices S, in no particular order
RECURSIVE SumPow(_, _, _)
SumPow(d, S, e) ==
  IF S = {} THEN 0
  ELSE LET i == CHOOSE j \in S : TRUE
       IN (IF e = 2 THEN d[i] * d[i] ELSE d[i]) + SumPow(d, S \ {i}, e)

SumOfSamples(d) == SumPow(d, DOMAIN d, 1)
SumOfSquares(d) == SumPow(d, DOMAIN d, 2)

\* r is the integer square root of num / den
IsRootOf(r, num, den) ==
  /\ r >= 0
  /\ r * r * den <= num
  /\ num < (r + 1) * (r + 1) * den

\* C4: for two or more samples stdDev returns the square root (truncated) of
\* the sample variance: of the squared deviations from the mean summed and
\* divided by count-1, with the mean exact or truncated as average returns it.
C4_StdDevIsRoot ==
  (result.op = "stdDev" /\ Len(durations) >= 2) =>
    LET n == Len(durations)
        sum == SumOfSamples(durations)
    IN \/ IsRootOf(result.val, n * SumOfSquares(durations) - sum * sum,
                   n * (n - 1))
       \/ IsRootOf(result.val, SampleVariance(durations), 1)

\* C5: average of no sample is 0; stdDev of no sample or of one sample,
\* whatever its value, is 0.
C5_EmptyAndSingle ==
  /\ (result.op = "average" /\ Len(durations) = 0) => result.val = 0
  /\ (result.op = "stdDev" /\ Len(durations) <= 1) => result.val = 0

C5_Witness ==
  /\ result.op = "stdDev"
  /\ Len(durations) = 1
  /\ durations[1] = MaxSample
  /\ result.val = 0

Rearrangements(d) ==
  LET n == Len(d)
      P == {p \in [1..n -> 1..n] : \A i, j \in 1..n : p[i] = p[j] => i = j}
  IN {[i \in 1..n |-> d[p[i]]] : p \in P}

\* C6: average returns the truncated quotient of the sum by the count, and
\* the same value for every rearrangement of its argument.
C6_AverageOrderInvariant ==
  (result.op = "average" /\ Len(durations) > 0) =>
    /\ result.val * Len(durations) <= SumOfSamples(durations)
    /\ SumOfSamples(durations) < (result.val + 1) * Len(durations)
    /\ \A q \in Rearrangements(durations) : average(q) = result.val

C6_Witness ==
  /\ result.op = "average"
  /\ Len(durations) = 3
  /\ durations[1] < durations[2]
  /\ durations[2] < durations[3]
  /\ result.val > 0

Called(r) == Cardinality({j \in DOMAIN calls : calls[j].role = r})
Returned(r) ==
  Cardinality({j \in DOMAIN calls : calls[j].role = r /\ calls[j].returned})

\* C7: in the CPU and I/O scenarios each sample slice holds one duration per
\* returned run at its level, a level is never run more than Iterations times
\* nor while an earlier run is out, and both slices hold Iterations = 5
\* durations when the averages are taken; the Mixed scenario has run exactly
\* once at level 1 and once at level NumCPU when it derives its speedup.
C7_SamplesMatchRuns ==
  /\ IsIterated(fn) =>
       /\ Len(concurrentTimes) = Returned("concurrent")
       /\ Len(parallelTimes) = Returned("parallel")
       /\ \A r \in {"concurrent", "parallel"} :
            /\ Called(r) <= Iterations
            /\ Called(r) - Returned(r) \in {0, 1}
       /\ Called("concurrent") + Called("parallel")
            - Returned("concurrent") - Returned("parallel") \in {0, 1}
       /\ pc = "aggregate" =>
            /\ Len(concurrentTimes) = Iterations
            /\ Len(parallelTimes) = Iterations
            /\ Called("concurrent") = Iterations
            /\ Called("parallel") = Iterations
  /\ (fn = "testMixedWorkload" /\ pc = "aggregate") =>
       /\ Len(calls) = 2
       /\ calls[1].role = "concurrent" /\ calls[1].arg = 1
       /\ calls[2].role = "parallel" /\ calls[2].arg = numCPU
       /\ calls[1].returned /\ calls[2].returned

C7_Witness ==
  /\ fn = "testIOWorkImproved"
  /\ pc = "aggregate"
  /\ Len(concurrentTimes) = Iterations
  /\ Len(parallelTimes) = Iterations
  /\ \E j \in DOMAIN parallelTimes : parallelTimes[j] > 0

\* C8: a run function never reaches its return with a normal duration when
\* one of its tasks terminated abnormally.
C8_FailurePropagated ==
  ~(pc = "ret" /\ \E k \in Mine : tasks[k].st = "panicked")

\* C9: a failure in one scenario does not keep the later ones from running:
\* when a goroutine of a scenario other than the last has panicked, the
\* process does not stop before the last scenario, Scalability, has started.
C9_LaterScenariosRun ==
  (proc = "exited" /\ failedIn \in {"testCPUWorkImproved", "testIOWorkImproved",
                                     "testMixedWorkload"})
    => fn \in {"testScalability", "exit"}

\* the denominator of the speedup in the last results block or row
Denominator ==
  CASE report.scenario = "testScalability" -> report.duration
    [] report.scenario = "none"            -> 1
    [] OTHER                               -> report.parallel

\* C10: a speedup derived from a denominator of 0 is reported as undefined,
\* never as what a division by zero yields.
C10_ZeroDenominatorRejected ==
  (report.scenario # "none" /\ Denominator = 0) =>
    report.speedup.kind = "undefined"

\* ---------------------------------------------------- the Scalability rows

\* C11: in every measured row of testScalability the count goroutines of the
\* row each work to the same bound, and that bound times the count is exactly
\* the fixed total of 10,000,000: no work is lost to the integer division.
C11_WorkDivisionExact ==
  (fn = "testScalability" /\ PastBarrier) =>
    /\ Cardinality(Mine) = goroutineCounts[iter]
    /\ \A k \in Mine :
         /\ tasks[k].kind = "scal"
         /\ tasks[k].work * Cardinality(Mine) = TotalWork

C11_Witness ==
  /\ fn = "testScalability"
  /\ pc = "ret"
  /\ numCPU = 4
  /\ Cardinality(Mine) = 16
  /\ \A k \in Mine : tasks[k].work = 625000

\* the counts of goroutineCounts the loop of testScalability has passed
PassedCounts == {goroutineCounts[j] : j \in 1..(iter - 1)}

\* C12: of the counts the loop has passed, exactly those not above
\* 4 x NumCPU were measured, and every row reports as speedup the duration of
\* the first measured row divided by its own duration, a first duration of 0
\* included: no later row ever takes the place of the baseline.
C12_SkipAndBaseline ==
  (fn = "testScalability" /\ pc = "loop") =>
    /\ {calls[j].arg : j \in DOMAIN calls} =
         {c \in PassedCounts : c <= SkipFactor * numCPU}
    /\ \A j \in DOMAIN calls : calls[j].returned
    /\ (calls # <<>>) =>
         /\ report.scenario = "testScalability"
         /\ report.count = Last(calls).arg
         /\ report.duration = Last(calls).dur
         /\ report.speedup = FloatDiv(calls[1].dur, report.duration)

\* ------------------------------------------------------ the Mixed scenario

MineOfKind(kind) == {k \in Mine : tasks[k].kind = kind}

\* C13: in both runs of testMixedWorkload the NumCPU tasks have the indices
\* 0..NumCPU-1, the task of an even index is the prime count and the task of
\* an odd index the simulated I/O: ceil(NumCPU/2) and floor(NumCPU/2) tasks.
C13_MixedParity ==
  (fn = "testMixedWorkload" /\ PastBarrier) =>
    /\ Cardinality(Mine) = numCPU
    /\ {tasks[k].id : k \in Mine} = 0..(numCPU - 1)
    /\ \A k \in Mine :
         tasks[k].kind = IF tasks[k].id \in {2 * h : h \in 0..numCPU} THEN "cpu" ELSE "io"
    /\ Cardinality(MineOfKind("cpu")) = (numCPU + 1) \div 2
    /\ Cardinality(MineOfKind("io")) = numCPU \div 2
    /\ Cardinality(MineOfKind("cpu")) + Cardinality(MineOfKind("io")) = numCPU

C13_Witness ==
  /\ fn = "testMixedWorkload"
  /\ pc = "ret"
  /\ role = "parallel"
  /\ numCPU = 4
  /\ Cardinality(MineOfKind("cpu")) = 2
  /\ Cardinality(MineOfKind("io")) = 2
  /\ calls[1].returned

\* ------------------------------------------------- the ceiling in a run

\* from the setting of the ceiling to the return of the run function; the
\* timed interval, time.Now() to time.Since(start), lies within
InRun == fn # "warmUp" /\ pc \in {"now", "launch", "wait", "since", "ret"}

\* the level the measurement under way was asked for
RequestedLevel == IF role = "concurrent" THEN 1 ELSE numCPU

\* C14 (state part): all through a measurement the ceiling is the requested
\* level, 1 or NumCPU (NumCPU in every row of testScalability), and the
\* deferred restore of the CPU, I/O and Mixed runs is still pending.
C14_LevelInRun ==
  InRun =>
    /\ gomaxprocs = RequestedLevel
    /\ fn = "testScalability" => gomaxprocs = numCPU /\ deferred = <<>>
    /\ fn # "testScalability" =>
         /\ Len(deferred) = 1
         /\ Last(calls).arg = gomaxprocs
         /\ Last(calls).entry = deferred[1]

\* C14: the state part always holds, and the ceiling changes only where a
\* run function sets it before time.Now() or restores it after time.Since().
C14_CeilingHeld ==
  /\ []C14_LevelInRun
  /\ [][gomaxprocs' # gomaxprocs => pc \in {"set", "ret"}]_vars
  /\ [][deferred' # deferred => pc \in {"set", "ret"}]_vars

C14_Witness ==
  /\ fn = "testIOWorkImproved"
  /\ role = "parallel"
  /\ pc = "since"
  /\ gomaxprocs = 2
  /\ deferred = <<1>>
  /\ \A k \in Mine : tasks[k].st = "done" /\ tasks[k].round = IORounds

\* ------------------------------------- the iterations of CPU and I/O

\* C15 (state part): in testCPUWorkImproved and testIOWorkImproved the calls
\* of the run function alternate, level 1 first and level NumCPU second in
\* each iteration, and the i-th concurrent and the i-th parallel sample are
\* the durations of the two calls of iteration i.
C15_Alternation ==
  IsIterated(fn) =>
    /\ \A j \in DOMAIN calls :
         /\ calls[j].role = IF j % 2 = 1 THEN "concurrent" ELSE "parallel"
         /\ calls[j].arg = IF j % 2 = 1 THEN 1 ELSE numCPU
         /\ (j > 1 /\ numCPU > 1) => calls[j].arg # calls[j - 1].arg
    /\ \A i \in DOMAIN concurrentTimes :
         calls[2 * i - 1].returned /\ concurrentTimes[i] = calls[2 * i - 1].dur
    /\ \A i \in DOMAIN parallelTimes :
         calls[2 * i].returned /\ parallelTimes[i] = calls[2 * i].dur
    /\ Len(concurrentTimes) - Len(parallelTimes) \in {0, 1}
    /\ pc = "gc" => iter = Len(parallelTimes) /\ iter < Iterations

\* C15: the state part always holds, and in these two scenarios the run
\* function is entered only from the step that forced the garbage
\* collection and slept the settle delay, which nothing else follows.
C15_SettledAlternating ==
  /\ []C15_Alternation
  /\ [][(IsIterated(fn') /\ Len(calls') = Len(calls) + 1) => pc = "set"]_vars
  /\ [][(IsIterated(fn') /\ pc' = "set") => (pc = "gc" /\ fn' = fn)]_vars
  /\ [][(IsIterated(fn) /\ pc = "gc") => (pc' = "set" /\ fn' = fn)]_vars

C15_Witness ==
  /\ fn = "testCPUWorkImproved"
  /\ pc = "set"
  /\ role = "parallel"
  /\ iter = 4
  /\ numCPU = 2
  /\ Len(concurrentTimes) = 5
  /\ Len(parallelTimes) = 4
  /\ concurrentTimes[5] = 1

\* ------------------------------------------------ the goroutines' steps

TasksIn(st) == {k \in TaskIdx : tasks[k].st = st}

\* C16: a goroutine in time.Sleep holds no worker.  The goroutines on a
\* worker never outnumber the ceiling; while some goroutine sleeps, a ready
\* one can be given any worker no goroutine is on (the only worker at level
\* 1); and a goroutine about to sleep can do so while others are asleep.
C16_SleepFreesWorker ==
  /\ Cardinality(TasksIn("running")) <= gomaxprocs
  /\ \A k \in TasksIn("ready") :
       (TasksIn("sleeping") # {} /\ Cardinality(TasksIn("running")) < gomaxprocs)
         => ENABLED Schedule(k)
  /\ \A k \in TasksIn("running") :
       (tasks[k].kind = "io" /\ tasks[k].round < IORounds /\ TasksIn("sleeping") # {})
         => ENABLED IoSleep(k)

C16_Witness ==
  /\ fn = "testIOWorkImproved"
  /\ role = "concurrent"
  /\ gomaxprocs = 1
  /\ Cardinality(TasksIn("sleeping")) >= 2
  /\ Cardinality(TasksIn("running")) = 1
  /\ \A k \in TaskIdx : tasks[k].kind = "io" /\ tasks[k].round = 0

\* a launched goroutine has not finished
Unfinished == \E k \in TaskIdx : ~Finished(tasks[k])

\* what the main goroutine holds: its position, the ceiling with the pending
\* restore, the samples, the calls made and the output
MainState ==
  <<fn, pc, role, iter, runId, gomaxprocs, deferred, concurrentTimes,
    parallelTimes, concurrentTime, parallelTime, baseTime, calls, report>>

\* C17 (state part): while a launched goroutine is unfinished, it is one of
\* the run under way and the main goroutine is inside that run, no later
\* than wg.Wait(): the run has not returned and its restore is still pending.
C17_BlockedInRun ==
  Unfinished =>
    /\ pc \in {"launch", "wait"}
    /\ \A k \in TaskIdx : ~Finished(tasks[k]) => tasks[k].run = runId
    /\ wg > 0
    /\ fn # "warmUp" =>
         /\ ~Last(calls).returned
         /\ Len(deferred) = (IF HasDefer(fn) THEN 1 ELSE 0)

\* C17: there is no timeout.  The state part always holds; while a goroutine
\* is unfinished, the main goroutine waiting on it does not move (no restore,
\* no sample, no next run or scenario); and if the goroutine never finishes
\* that stays so for ever.
C17_NoTimeout ==
  /\ []C17_BlockedInRun
  /\ [][(pc = "wait" /\ Unfinished) => MainState' = MainState]_vars
  /\ (<>[]Unfinished) => <>[](pc \in {"launch", "wait"} /\ wg > 0)

C17_Witness ==
  /\ fn = "testCPUWorkImproved"
  /\ pc = "wait"
  /\ role = "concurrent"
  /\ numCPU = 2
  /\ wg = 1
  /\ deferred = <<2>>
  /\ gomaxprocs = 1
  /\ \E k \in Mine : tasks[k].st = "done"
  /\ \E k \in Mine : tasks[k].st = "ready"

\* ------------------------------------------- the arguments of the runs

\* C18: every ceiling a run function is called with or sets is at least 1,
\* and so is every goroutine count runScalabilityTest is called with (its
\* division has a non-zero divisor and every goroutine a bound of its own):
\* no measurement starts on an invalid level or count.
C18_LevelsAndCountsValid ==
  /\ gomaxprocs >= 1
  /\ \A j \in DOMAIN deferred : deferred[j] >= 1
  /\ \A j \in DOMAIN calls : calls[j].arg >= 1 /\ calls[j].entry >= 1
  /\ InRun => RequestedLevel >= 1 /\ gomaxprocs = RequestedLevel
  /\ (fn = "testScalability" /\ (pc = "set" \/ InRun)) =>
       /\ goroutineCounts[iter] >= 1
       /\ goroutineCounts[iter] <= SkipFactor * numCPU
       /\ \A k \in Mine : tasks[k].work >= 1

C18_Witness ==
  /\ numCPU = 1
  /\ fn = "testScalability"
  /\ pc = "ret"
  /\ Len(calls) = 3
  /\ calls[3].arg = 4
  /\ gomaxprocs = 1
  /\ Cardinality(Mine) = 4

\* -------------------------------------------- what a goroutine changes

\* a step of a launched goroutine: the state of some goroutine changes and
\* none is launched or collected
TaskMoved == Len(tasks') = Len(tasks) /\ tasks' # tasks

\* goroutine k alone moved; wg.Done() is its last act and counts on the
\* WaitGroup of the run that launched it
OnlyMoved(k) ==
  /\ \A j \in TaskIdx \ {k} : tasks'[j] = tasks[j]
  /\ tasks'[k].run = tasks[k].run
  /\ tasks'[k].id = tasks[k].id
  /\ tasks'[k].kind = tasks[k].kind
  /\ tasks'[k].work = tasks[k].work
  /\ IF tasks'[k].signals # tasks[k].signals
     THEN /\ tasks'[k].st = "done"
          /\ tasks[k].run = runId
          /\ wg' = wg - 1
     ELSE wg' = wg

\* C19: a step of a goroutine changes that goroutine's own state and, at its
\* end, the counter of its run's WaitGroup: not the ceiling, not a sample,
\* not the clock, not the main goroutine, not another goroutine.  The
\* ceiling changes only in a step of the main goroutine inside the run
\* function of the scenario under way.
C19_TaskFrame ==
  /\ [][TaskMoved =>
          /\ MainState' = MainState
          /\ <<now, start, elapsed, numCPU>>' = <<now, start, elapsed, numCPU>>
          /\ \E k \in TaskIdx : OnlyMoved(k)]_vars
  /\ [][gomaxprocs' # gomaxprocs =>
          /\ ~TaskMoved
          /\ fn' = fn
          /\ fn \in {"testCPUWorkImproved", "testIOWorkImproved",
                     "testMixedWorkload", "testScalability"}
          /\ pc \in {"set", "ret"}]_vars

C19_Witness ==
  /\ fn = "testMixedWorkload"
  /\ role = "parallel"
  /\ pc = "wait"
  /\ gomaxprocs = 2
  /\ deferred = <<1>>
  /\ wg = 1
  /\ \E k \in Mine : tasks[k].kind = "cpu" /\ tasks[k].st = "done"
  /\ \E k \in Mine : tasks[k].kind = "io" /\ tasks[k].st = "sleeping"

\* ------------------------------------------------- the prime count

\* the primes below L: the numbers from 2 on with no divisor but 1 and
\* themselves
PrimesBelow(L) ==
  {p \in 2..(L - 1) : \A d \in 2..(p - 1) : p % d # 0}

\* C20: the loop of cpuIntensiveTaskImproved counts the primes.  Before each
\* candidate n the counter is the number of primes below n; at the end it is
\* the number of primes below the limit (9592 for the limit 100,000 of the
\* source); and goroutines of different ids given the same limit end with
\* the same count whatever their interleaving.
C20_CountsPrimes ==
  fn = "runCPUTasksImproved" =>
    \A k \in TaskIdx :
      /\ tasks[k].limit <= MaxLimit =>
           tasks[k].count = Cardinality(PrimesBelow(tasks[k].n))
      /\ tasks[k].st = "done" =>
           /\ tasks[k].n >= tasks[k].limit
           /\ tasks[k].limit <= MaxLimit =>
                tasks[k].count = Cardinality(PrimesBelow(tasks[k].limit))
           /\ tasks[k].limit = 100000 => tasks[k].count = 9592
           /\ \A j \in TaskIdx :
                (tasks[j].st = "done" /\ tasks[j].limit = tasks[k].limit)
                  => tasks[j].count = tasks[k].count

C20_Witness ==
  /\ fn = "runCPUTasksImproved"
  /\ Len(tasks) = 1
  /\ tasks[1].limit = 100000
  /\ tasks[1].st = "done"
  /\ tasks[1].count = 9592

\* the counts of the rows measured so far, in the order of their calls
MeasuredCounts == [j \in DOMAIN calls |-> calls[j].arg]

\* C22: in testScalability the measured counts are the first Len(calls)
\* entries of 1, 2, 4, 8, 16 in their order: the count 1 is measured first
\* and never skipped, a count is skipped only when it exceeds 4 x NumCPU, and
\* once a count has been skipped the next one is skipped too, so the loop
\* ends with at least one row and the program with a row as its last output.
C22_MeasuredPrefix ==
  /\ fn = "testScalability" =>
       /\ Len(calls) <= Len(goroutineCounts)
       /\ MeasuredCounts = SubSeq(goroutineCounts, 1, Len(calls))
       /\ calls # <<>> => calls[1].arg = 1
       /\ pc = "loop" =>
            /\ Len(calls) <= iter - 1
            /\ iter > 1 => calls # <<>> /\ calls[1].returned
            /\ \A j \in (Len(calls) + 1)..(iter - 1) :
                 goroutineCounts[j] > SkipFactor * numCPU
            /\ (Len(calls) < iter - 1 /\ iter <= Len(goroutineCounts)) =>
                 goroutineCounts[iter] > SkipFactor * numCPU
       /\ pc # "loop" =>
            /\ Len(calls) \in {iter - 1, iter}
            /\ goroutineCounts[iter] <= SkipFactor * numCPU
  /\ fn = "exit" => report.scenario = "testScalability" /\ report.count >= 1

C22_Witness ==
  /\ numCPU = 1
  /\ fn = "testScalability"
  /\ pc = "loop"
  /\ iter = 6
  /\ MeasuredCounts = <<1, 2, 4>>

\* ------------------------------------------------------- termination

\* main has returned: the last row of testScalability is out, every
\* goroutine has finished and been collected
Finishes ==
  /\ fn = "exit"
  /\ pc = "done"
  /\ tasks = <<>>
  /\ wg = 0
  /\ report.scenario = "testScalability"

\* C21: under fair scheduling the suite terminates.  Every wg.Wait() the
\* main goroutine reaches is released, with more goroutines than workers
\* too (ceiling 1); main finishes and stays finished; and it gets there
\* through warmUp and the four scenarios, each entered and left in turn.
C21_Terminates ==
  /\ (pc = "wait") ~> (pc # "wait")
  /\ <>[]Finishes
  /\ [][fn' # fn => /\ fn # "exit"
                    /\ fn' = Scenarios[ScenarioIndex(fn) + 1]
                    /\ \A k \in TaskIdx : Finished(tasks[k])]_vars

C21_Witness ==
  /\ Finishes
  /\ numCPU = 2
  /\ gomaxprocs = 2
  /\ report.count = 8
  /\ now = MaxClock

=============================================================================
